---- MODULE Spec2Model ----
(***************************************************************************)
(* A model of scripts/generate-database.py: the pipeline of run(), which   *)
(* parses the two catalogs (texlive.tlpdb and FILES.byname), reconciles    *)
(* them, packs the files missing from CTAN into a zip archive, recovers    *)
(* the byte range of every archive entry and writes the signed table.      *)
(*                                                                         *)
(* Strings are sequences of characters (one-character strings), so that    *)
(* splitting, prefix tests, ordering and encoded lengths are computed as   *)
(* Python computes them.  The character "U+00E9" stands for the one        *)
(* non-ASCII character of the model (e with acute accent).                 *)
(***************************************************************************)
EXTENDS Integers, Sequences, FiniteSets, TLC

VARIABLES
    tlpdb,            \* run(): the text of texlive.tlpdb, as its blocks
    ctan,             \* run(): the text of FILES.byname, as its lines
    dirs,             \* the paths under texmf_dist that are directories
    pc,               \* the position of run()
    error,            \* the exception that ended run(), or "none"
    ctan_files,       \* run(): ctan_files
    all_tlpdb_files,  \* run(): all_tlpdb_files
    zip_tlpdb_files,  \* run(): zip_tlpdb_files
    ctan_missing,     \* run(): ctan_missing
    ctan_found,       \* run(): ctan_found
    zip_files,        \* run(): zip_files
    zipFile,          \* the file output_directory / ZIP_NAME, or None
    dbFile,           \* the file output_directory / DATABASE_FILENAME, or None
    written,          \* the artifacts this run has written so far
    arg,              \* lua_string(s), lua_key(s): the argument s, as bytes
    literal           \* lua_string(s), lua_key(s): the bytes returned, or None

vars == <<tlpdb, ctan, dirs, pc, error, ctan_files, all_tlpdb_files,
          zip_tlpdb_files, ctan_missing, ctan_found, zip_files, zipFile,
          dbFile, written, arg, literal>>

-----------------------------------------------------------------------------
(* Bounds of the model.                                                    *)

MaxPkgs == 2
MaxCtan == 2
MaxPayload == 3
MaxLen == 4

-----------------------------------------------------------------------------
(* Python values.                                                          *)

None == <<>>
Some(x) == <<x>>
EmptyDict == <<>>

Min(a, b) == IF a < b THEN a ELSE b

\* ord(c) of the characters the model uses.
CodePoint ==
    " " :> 32 @@ "\"" :> 34 @@ "-" :> 45 @@ "." :> 46 @@ "/" :> 47 @@
    "0" :> 48 @@ "1" :> 49 @@ "2" :> 50 @@ "3" :> 51 @@ "4" :> 52 @@
    "5" :> 53 @@ "6" :> 54 @@ "7" :> 55 @@ "8" :> 56 @@ "9" :> 57 @@
    "=" :> 61 @@ "[" :> 91 @@ "\\" :> 92 @@ "]" :> 93 @@ "_" :> 95 @@
    "a" :> 97 @@ "b" :> 98 @@ "c" :> 99 @@ "d" :> 100 @@ "e" :> 101 @@
    "f" :> 102 @@ "g" :> 103 @@ "h" :> 104 @@ "i" :> 105 @@ "j" :> 106 @@
    "k" :> 107 @@ "l" :> 108 @@ "m" :> 109 @@ "n" :> 110 @@ "o" :> 111 @@
    "p" :> 112 @@ "q" :> 113 @@ "r" :> 114 @@ "s" :> 115 @@ "t" :> 116 @@
    "u" :> 117 @@ "v" :> 118 @@ "w" :> 119 @@ "x" :> 120 @@ "y" :> 121 @@
    "z" :> 122 @@ "U+00E9" :> 233

\* str < str: lexicographic by code point.
RECURSIVE StrLess(_, _)
StrLess(a, b) ==
    IF b = <<>> THEN FALSE
    ELSE IF a = <<>> THEN TRUE
    ELSE IF CodePoint[Head(a)] # CodePoint[Head(b)]
         THEN CodePoint[Head(a)] < CodePoint[Head(b)]
         ELSE StrLess(Tail(a), Tail(b))

StartsWith(s, prefix) ==
    /\ Len(prefix) <= Len(s)
    /\ SubSeq(s, 1, Len(prefix)) = prefix

\* The index of the last occurrence of c in s, or 0.
LastIndexOf(s, c) ==
    LET hits == {i \in 1..Len(s) : s[i] = c}
    IN  IF hits = {} THEN 0 ELSE CHOOSE i \in hits : \A j \in hits : j <= i

\* \S+ : no whitespace.
NoSpace(s) == \A i \in 1..Len(s) : s[i] # " "

\* The number of bytes of c in UTF-8.
Utf8Len(c) ==
    IF CodePoint[c] < 128 THEN 1 ELSE IF CodePoint[c] < 2048 THEN 2 ELSE 3

\* len(s.encode("utf-8"))
RECURSIVE EncodedLen(_)
EncodedLen(s) == IF s = <<>> THEN 0 ELSE Utf8Len(Head(s)) + EncodedLen(Tail(s))

\* s.encode("ascii") succeeds
IsAscii(s) == \A i \in 1..Len(s) : CodePoint[s[i]] < 128

-----------------------------------------------------------------------------
(* Constants of the script.                                                *)

CONTEXT_LENGTH == 8
SECRET_KEY_LENGTH == 64
SIGNATURE_LENGTH == 64
ZIP_LOCAL_FILE_HEADER_SIZE == 30
HASH_SIZE_BYTES == 16
LIBHYDROGEN_CONTEXT == <<"n", "e", "t", "i", "n", "s", "t", "1">>
ZIP_EPOCH == <<1980, 1, 1, 0, 0, 0>>

IGNORE_EXTENSIONS ==
    { <<"p", "d", "f">>, <<"p", "n", "g">>, <<"j", "p", "g">>,
      <<"4", "h", "t">> }

IGNORE_PACKAGES == {"lwarp", "00texlive.image", "latex", "l3kernel"}

\* The roots TLPDB_FILE_REGEX accepts: (texmf-dist | RELOC).
TLPDB_ROOTS == {"texmf-dist", "RELOC"}

\* The alternatives of the group "format" of TLPDB_FILE_REGEX.
TLPDB_FORMATS ==
    { <<"d", "v", "i", "p", "s">>,
      <<"m", "e", "t", "a", "p", "o", "s", "t">>,
      <<"s", "c", "r", "i", "p", "t", "s">>,
      <<"t", "e", "x", "/", "l", "a", "t", "e", "x">>,
      <<"t", "e", "x", "/", "g", "e", "n", "e", "r", "i", "c">>,
      <<"t", "e", "x", "/", "l", "u", "a", "l", "a", "t", "e", "x">>,
      <<"t", "e", "x", "/", "l", "u", "a", "t", "e", "x">>,
      <<"f", "o", "n", "t", "s", "/", "t", "f", "m">>,
      <<"f", "o", "n", "t", "s", "/", "t", "y", "p", "e", "1">>,
      <<"f", "o", "n", "t", "s", "/", "v", "f">>,
      <<"f", "o", "n", "t", "s", "/", "a", "f", "m">>,
      <<"f", "o", "n", "t", "s", "/", "e", "n", "c">>,
      <<"f", "o", "n", "t", "s", "/", "c", "m", "a", "p">>,
      <<"f", "o", "n", "t", "s", "/", "m", "a", "p">>,
      <<"f", "o", "n", "t", "s", "/", "o", "p", "e", "n", "t", "y", "p", "e">>,
      <<"f", "o", "n", "t", "s", "/", "t", "r", "u", "e", "t", "y", "p", "e">> }

\* The prefixes CTAN_IGNORE_REGEX matches.
CTAN_IGNORE_PREFIXES ==
    { <<"m", "a", "c", "r", "o", "s", "/", "l", "a", "t", "e", "x", "-",
        "d", "e", "v", "/">>,
      <<"m", "a", "c", "r", "o", "s", "/", "c", "o", "n", "t", "e", "x", "t",
        "/", "c", "o", "n", "t", "r", "i", "b", "/">>,
      <<"i", "n", "f", "o", "/">> }

-----------------------------------------------------------------------------
(* FileEntry and the two catalog parsers.                                  *)

FileEntry(filename, path, source, date, revision) ==
    [filename |-> filename, path |-> path, source |-> source,
     date |-> date, revision |-> revision]

\* files[filename].append(entry), creating the list when the key is new.
AppendEntry(files, entry) ==
    IF entry.filename \in DOMAIN files
    THEN [files EXCEPT ![entry.filename] = Append(@, entry)]
    ELSE files @@ (entry.filename :> <<entry>>)

\* The tail  / \S+? / (?P<filename> [^ / \s ]+) $  of both file regexes,
\* matched against the text after the first slash-terminated prefix: a
\* non-empty directory part, a slash, a non-empty last segment.
MatchesDirAndName(rest) ==
    /\ NoSpace(rest)
    /\ LastIndexOf(rest, "/") >= 2
    /\ LastIndexOf(rest, "/") < Len(rest)

\* The group "filename": the last segment of the path.
FilenameOf(path) == SubSeq(path, LastIndexOf(path, "/") + 1, Len(path))

\* The group "format" of TLPDB_FILE_REGEX on a line " <root>/<path>", or
\* None when the line does not match.
TlpdbFormat(line) ==
    LET fits == {f \in TLPDB_FORMATS :
                    /\ StartsWith(line.path, f \o <<"/">>)
                    /\ MatchesDirAndName(
                          SubSeq(line.path, Len(f) + 2, Len(line.path)))}
    IN  IF line.root \in TLPDB_ROOTS /\ fits # {}
        THEN Some(CHOOSE f \in fits : TRUE)
        ELSE None

\* CTAN_FILE_REGEX on a line "<date> | <size> | <path>".
CtanLineMatches(line) == MatchesDirAndName(line.path)

\* CTAN_IGNORE_REGEX.match(path)
CtanIgnored(path) == \E p \in CTAN_IGNORE_PREFIXES : StartsWith(path, p)

\* filelist_from_ctan: the loop over the matches, in scan order.
RECURSIVE CtanLoop(_, _)
CtanLoop(lines, files) ==
    IF lines = <<>> THEN files
    ELSE LET line == Head(lines)
         IN  IF ~CtanLineMatches(line) \/ CtanIgnored(line.path)
             THEN CtanLoop(Tail(lines), files)
             ELSE CtanLoop(Tail(lines),
                           AppendEntry(files,
                               FileEntry(FilenameOf(line.path), line.path,
                                         "ctan", Some(line.date), None)))

filelist_from_ctan(files_byname) == CtanLoop(files_byname, EmptyDict)

\* filelist_from_tlpdb: a block of the text raises ValueError when it has no
\* "name" line and is not blank.
BlockFails(block) == block.name = None /\ ~block.blank

\* The blocks whose files are read: named, and not of an ignored package.
BlockRead(block) == block.name # None /\ block.name[1] \notin IGNORE_PACKAGES

\* The inner loop over the file lines of one package.  onlyTex selects the
\* second dictionary (format.startswith("tex/")).
RECURSIVE FileLoop(_, _, _, _)
FileLoop(lines, revision, files, onlyTex) ==
    IF lines = <<>> THEN files
    ELSE LET line == Head(lines)
             fmt  == TlpdbFormat(line)
             keep == /\ fmt # None
                     /\ onlyTex => StartsWith(fmt[1], <<"t", "e", "x", "/">>)
         IN  IF ~keep
             THEN FileLoop(Tail(lines), revision, files, onlyTex)
             ELSE FileLoop(Tail(lines), revision,
                           AppendEntry(files,
                               FileEntry(FilenameOf(line.path), line.path,
                                         "tlpdb", None, revision)),
                           onlyTex)

RECURSIVE PackageLoop(_, _, _)
PackageLoop(blocks, files, onlyTex) ==
    IF blocks = <<>> THEN files
    ELSE LET block == Head(blocks)
         IN  IF ~BlockRead(block)
             THEN PackageLoop(Tail(blocks), files, onlyTex)
             ELSE PackageLoop(Tail(blocks),
                              FileLoop(block.lines, block.revision, files,
                                       onlyTex),
                              onlyTex)

TlpdbFails(text) == \E i \in 1..Len(text) : BlockFails(text[i])
TlpdbAllFiles(text) == PackageLoop(text, EmptyDict, FALSE)
TlpdbZipFiles(text) == PackageLoop(text, EmptyDict, TRUE)

-----------------------------------------------------------------------------
(* The inputs of a run.                                                    *)

tex_latex_a_x_sty ==
    <<"t", "e", "x", "/", "l", "a", "t", "e", "x", "/", "a", "/",
      "x", ".", "s", "t", "y">>
tex_latex_a_b_v_sty ==
    <<"t", "e", "x", "/", "l", "a", "t", "e", "x", "/", "a", "-", "b", "/",
      "v", ".", "s", "t", "y">>
scripts_a_x_sty ==
    <<"s", "c", "r", "i", "p", "t", "s", "/", "a", "/", "x", ".", "s", "t",
      "y">>
tex_latex_a_pdf ==
    <<"t", "e", "x", "/", "l", "a", "t", "e", "x", "/", "a", "/",
      "p", "d", "f">>
doc_a_z_sty == <<"d", "o", "c", "/", "a", "/", "z", ".", "s", "t", "y">>
tex_latex_b_x_sty ==
    <<"t", "e", "x", "/", "l", "a", "t", "e", "x", "/", "b", "/",
      "x", ".", "s", "t", "y">>
tex_generic_c_e_sty ==
    <<"t", "e", "x", "/", "g", "e", "n", "e", "r", "i", "c", "/", "c", "/",
      "U+00E9", ".", "s", "t", "y">>
tex_latex_a_y_pdf ==
    <<"t", "e", "x", "/", "l", "a", "t", "e", "x", "/", "a", "/",
      "y", ".", "p", "d", "f">>
macros_a_x_sty ==
    <<"m", "a", "c", "r", "o", "s", "/", "a", "/", "x", ".", "s", "t", "y">>
macros_b_x_sty ==
    <<"m", "a", "c", "r", "o", "s", "/", "b", "/", "x", ".", "s", "t", "y">>
info_a_v_sty == <<"i", "n", "f", "o", "/", "a", "/", "v", ".", "s", "t", "y">>
macros_c_pdf == <<"m", "a", "c", "r", "o", "s", "/", "c", "/", "p", "d", "f">>

Line(root, path) == [root |-> root, path |-> path]

\* The file lists a package block of the model can hold.
FileLists ==
    << << Line("RELOC", tex_latex_a_x_sty),
          Line("RELOC", tex_latex_a_b_v_sty),
          Line("RELOC", tex_latex_a_pdf) >>,
       << Line("texmf-dist", scripts_a_x_sty),
          Line("RELOC", doc_a_z_sty),
          Line("RELOC", tex_generic_c_e_sty) >>,
       << Line("RELOC", tex_latex_b_x_sty),
          Line("RELOC", tex_latex_a_y_pdf) >> >>

Package(name, revision, lines) ==
    [name |-> Some(name), blank |-> FALSE, revision |-> revision,
     lines |-> lines]

\* A blank block, and a block that has text but no "name" line.
BlankBlock == [name |-> None, blank |-> TRUE, revision |-> None, lines |-> <<>>]
NamelessBlock ==
    [name |-> None, blank |-> FALSE, revision |-> Some(1),
     lines |-> FileLists[1]]

\* The revisions a package block of the model can have: no "revision"
\* line, or one of two revisions.
RevisionPool == <<None, Some(1), Some(2)>>

\* The blocks a tlpdb text of the model can hold, in file order: package
\* "foo" with every file list and every revision, a package that is
\* ignored, and the two blocks above.
BlockPool ==
    [k \in 1..(Len(FileLists) * Len(RevisionPool)) |->
        Package("foo",
                RevisionPool[((k - 1) % Len(RevisionPool)) + 1],
                FileLists[((k - 1) \div Len(RevisionPool)) + 1])]
    \o << Package("latex", Some(1), FileLists[1]), BlankBlock, NamelessBlock >>

\* The subsequence of seq at the positions of keep.
RECURSIVE Pick(_, _)
Pick(seq, keep) ==
    IF seq = <<>> THEN <<>>
    ELSE IF Len(seq) \in keep
         THEN Pick(SubSeq(seq, 1, Len(seq) - 1), keep) \o <<seq[Len(seq)]>>
         ELSE Pick(SubSeq(seq, 1, Len(seq) - 1), keep)

\* The subsequences of pool of at most n elements.
SubSeqsUpTo(pool, n) ==
    {Pick(pool, keep) :
        keep \in {k \in SUBSET (1..Len(pool)) : Cardinality(k) <= n}}

TlpdbTexts == SubSeqsUpTo(BlockPool, MaxPkgs)

CtanLine(path) == [date |-> 20260101, path |-> path]

\* The lines a FILES.byname text of the model can hold, in file order.
CtanPool ==
    << CtanLine(macros_a_x_sty), CtanLine(macros_b_x_sty),
       CtanLine(info_a_v_sty), CtanLine(macros_c_pdf) >>

CtanTexts == SubSeqsUpTo(CtanPool, MaxCtan)

\* The paths of texmf_dist that may be directories rather than files.
DirCandidates == {tex_latex_a_x_sty}

IsDirectory(path) == path \in dirs

-----------------------------------------------------------------------------
(* libhydrogen: digests and signatures are abstract values that determine  *)
(* the message they were computed over.                                    *)

hash_message(message) == [digest_of |-> message]

create_signature(message, secret_key) ==
    [signed |-> message, context |-> LIBHYDROGEN_CONTEXT, key |-> secret_key]

\* The bytes of the local file texmf_dist / path.
FileBytes(path) == <<[part |-> "file", of |-> path]>>

\* hash_file, for a path that is a regular file (open() raises
\* IsADirectoryError for a directory).
hash_file(path) == hash_message(FileBytes(path))

-----------------------------------------------------------------------------
(* The Reconciler.                                                         *)

\* filename.split(".")[-1]
Extension(filename) ==
    SubSeq(filename, LastIndexOf(filename, ".") + 1, Len(filename))

\* A variant that leaves out the set difference with the CTAN filenames.
get_missing_ctan_files_NoDifference(tlpdb_files, ctan_files_) ==
    LET missing == DOMAIN tlpdb_files
        kept == {filename \in missing :
                    /\ Extension(filename) \notin IGNORE_EXTENSIONS
                    /\ ~(Len(tlpdb_files[filename]) > 1)}
    IN  {tlpdb_files[filename][1] : filename \in kept}

\* A variant that leaves out the check for duplicate entries and adds every
\* entry of a filename.
get_missing_ctan_files_AllEntries(tlpdb_files, ctan_files_) ==
    LET missing == (DOMAIN tlpdb_files) \ (DOMAIN ctan_files_)
        kept == {filename \in missing :
                    Extension(filename) \notin IGNORE_EXTENSIONS}
    IN  UNION {{tlpdb_files[filename][i] :
                   i \in 1..Len(tlpdb_files[filename])} : filename \in kept}

get_missing_ctan_files(tlpdb_files, ctan_files_) ==
    LET missing == (DOMAIN tlpdb_files) \ (DOMAIN ctan_files_)
        kept == {filename \in missing :
                    /\ Extension(filename) \notin IGNORE_EXTENSIONS
                    /\ ~(Len(tlpdb_files[filename]) > 1)}
    IN  {tlpdb_files[filename][1] : filename \in kept}

CTANRow(path, revision, hash) ==
    [kind |-> "ctan", path |-> path, revision |-> revision, hash |-> hash]

\* A variant that tests only the CTAN list for duplicates.
FoundCandidates_CtanOnly(tlpdb_files, ctan_files_) ==
    {filename \in (DOMAIN tlpdb_files) \cap (DOMAIN ctan_files_) :
        ~(Len(ctan_files_[filename]) > 1)}

\* A variant whose duplicate test is off by one (>= 1 for > 1).
FoundCandidates_OffByOne(tlpdb_files, ctan_files_) ==
    {filename \in (DOMAIN tlpdb_files) \cap (DOMAIN ctan_files_) :
        ~(Len(ctan_files_[filename]) >= 1 \/ Len(tlpdb_files[filename]) > 1)}

\* The filenames get_found_ctan_files does not skip as duplicates.
FoundCandidates(tlpdb_files, ctan_files_) ==
    {filename \in (DOMAIN tlpdb_files) \cap (DOMAIN ctan_files_) :
        ~(Len(ctan_files_[filename]) > 1 \/ Len(tlpdb_files[filename]) > 1)}

\* A variant that never raises for a missing revision.
FoundFails_Never(tlpdb_files, ctan_files_) == FALSE

\* get_found_ctan_files raises ValueError.
FoundFails(tlpdb_files, ctan_files_) ==
    \E filename \in FoundCandidates(tlpdb_files, ctan_files_) :
        tlpdb_files[filename][1].revision = None

\* The dictionary get_found_ctan_files returns when it does not raise.
get_found_ctan_files(tlpdb_files, ctan_files_) ==
    LET kept == {filename \in FoundCandidates(tlpdb_files, ctan_files_) :
                    ~IsDirectory(tlpdb_files[filename][1].path)}
    IN  [filename \in kept |->
            CTANRow(ctan_files_[filename][1].path,
                    tlpdb_files[filename][1].revision,
                    hash_file(tlpdb_files[filename][1].path))]

-----------------------------------------------------------------------------
(* The Archive Builder.                                                    *)

\* A variant that sorts by the revision alone.
ZipSortKey_RevisionOnly(entry) ==
    <<IF entry.revision # None THEN entry.revision[1] ELSE -1, <<>> >>

\* The sort key of create_zip: (revision or -1, path).
ZipSortKey(entry) ==
    <<IF entry.revision # None THEN entry.revision[1] ELSE -1, entry.path>>

\* Tuple comparison of two (int, str) keys.
KeyLess(k1, k2) ==
    \/ k1[1] < k2[1]
    \/ k1[1] = k2[1] /\ StrLess(k1[2], k2[2])

\* sorted(): a stable sort of [key, value] items by key.
RECURSIVE InsertSorted(_, _)
InsertSorted(sorted, item) ==
    IF sorted = <<>> THEN <<item>>
    ELSE IF KeyLess(item.key, Head(sorted).key)
         THEN <<item>> \o sorted
         ELSE <<Head(sorted)>> \o InsertSorted(Tail(sorted), item)

RECURSIVE SortedItems(_)
SortedItems(items) ==
    IF items = <<>> THEN <<>>
    ELSE InsertSorted(SortedItems(SubSeq(items, 1, Len(items) - 1)),
                      items[Len(items)])

\* A variant that does not sort.
SortedFiles_Unsorted(iteration) == iteration

\* sorted(files, key=...) of create_zip, for the order in which the set
\* is iterated.
SortedFiles(iteration) ==
    LET items == [i \in 1..Len(iteration) |->
                     [key |-> ZipSortKey(iteration[i]), value |-> iteration[i]]]
        sorted == SortedItems(items)
    IN  [i \in 1..Len(sorted) |-> sorted[i].value]

\* The orders in which a set can be iterated.
RECURSIVE Orderings(_)
Orderings(S) ==
    IF S = {} THEN {<<>>}
    ELSE UNION {{<<x>> \o rest : rest \in Orderings(S \ {x})} : x \in S}

\* The length of the deflate stream of the file at path.
DeflateLen(path) == 1 + (Len(path) % MaxPayload)

\* The ZipInfo of create_zip for one file, written at position offset.
ZipInfo(file, offset) ==
    [filename      |-> file.filename,
     date_time     |-> ZIP_EPOCH,
     external_attr |-> 292 * 65536,
     create_system |-> 3,
     compress_type |-> "ZIP_DEFLATED",
     compresslevel |-> 9,
     extra         |-> <<>>,
     header_offset |-> offset,
     compress_size |-> DeflateLen(file.path),
     source        |-> file.path]

\* The bytes ZipFile.writestr writes for an entry: the local file header,
\* the encoded name, the extra field and the compressed data.
EntryLen(info) ==
    ZIP_LOCAL_FILE_HEADER_SIZE + EncodedLen(info.filename) + Len(info.extra)
    + info.compress_size

\* The loop of create_zip over sorted_files; a directory is skipped.
RECURSIVE ZipLoop(_, _, _)
ZipLoop(files, entries, offset) ==
    IF files = <<>> THEN entries
    ELSE IF IsDirectory(Head(files).path)
         THEN ZipLoop(Tail(files), entries, offset)
         ELSE LET info == ZipInfo(Head(files), offset)
              IN  ZipLoop(Tail(files), Append(entries, info),
                          offset + EntryLen(info))

\* The archive create_zip writes: the list of its entries.
create_zip(iteration) == ZipLoop(SortedFiles(iteration), <<>>, 0)

\* The position after the last entry, where the central directory starts.
EntriesEnd(zip) ==
    IF zip = <<>> THEN 0
    ELSE zip[Len(zip)].header_offset + EntryLen(zip[Len(zip)])

RECURSIVE CentralDirectoryLen(_)
CentralDirectoryLen(zip) ==
    IF zip = <<>> THEN 22
    ELSE 46 + EncodedLen(Head(zip).filename) + Len(Head(zip).extra)
         + CentralDirectoryLen(Tail(zip))

\* len(zip_bytes)
ZipLen(zip) == EntriesEnd(zip) + CentralDirectoryLen(zip)

\* zip_bytes[pos]: which byte of the archive stands at position pos.
ZipByte(zip, pos) ==
    LET at == {i \in 1..Len(zip) :
                  /\ zip[i].header_offset <= pos
                  /\ pos < zip[i].header_offset + EntryLen(zip[i])}
    IN  IF at = {}
        THEN [part |-> "central directory", entry |-> 0,
              index |-> pos - EntriesEnd(zip)]
        ELSE LET i == CHOOSE i \in at : TRUE
                 off == pos - zip[i].header_offset
                 nameEnd == ZIP_LOCAL_FILE_HEADER_SIZE
                            + EncodedLen(zip[i].filename)
                 dataStart == nameEnd + Len(zip[i].extra)
             IN  IF off < ZIP_LOCAL_FILE_HEADER_SIZE
                 THEN [part |-> "local header", entry |-> i, index |-> off]
                 ELSE IF off < nameEnd
                 THEN [part |-> "name", entry |-> i,
                       index |-> off - ZIP_LOCAL_FILE_HEADER_SIZE]
                 ELSE IF off < dataStart
                 THEN [part |-> "extra", entry |-> i, index |-> off - nameEnd]
                 ELSE [part |-> "data", entry |-> i, index |-> off - dataStart]

\* zip_bytes[start : stop], for 0 <= start.
ZipSlice(zip, start, stop) ==
    LET end == Min(stop, ZipLen(zip))
    IN  IF end <= start THEN <<>>
        ELSE [k \in 1..(end - start) |-> ZipByte(zip, start + k - 1)]

-----------------------------------------------------------------------------
(* The Offset Extractor.                                                   *)

ZipRow(path, revision, hash, start_offset, end_offset) ==
    [kind |-> "zip", path |-> path, revision |-> revision, hash |-> hash,
     start_offset |-> start_offset, end_offset |-> end_offset]

\* A variant that leaves out the position of the local header.
StartOffset_NoHeaderOffset(zip_info) ==
    ZIP_LOCAL_FILE_HEADER_SIZE + Len(zip_info.filename) + Len(zip_info.extra)

\* start_offset of get_zip_files for a ZipInfo read from the archive;
\* len(zip_info.filename) counts characters.
StartOffset(zip_info) ==
    zip_info.header_offset + ZIP_LOCAL_FILE_HEADER_SIZE
    + Len(zip_info.filename) + Len(zip_info.extra)

EndOffset(zip_info) == StartOffset(zip_info) + zip_info.compress_size

\* The slice of the archive get_zip_files hashes for an entry.
HashedSlice(zip, zip_info) ==
    ZipSlice(zip, StartOffset(zip_info), EndOffset(zip_info) + 1)

\* get_zip_files raises ValueError: a name that is no key of tlpdb_files,
\* or a record without a revision.
ZipFilesFails(tlpdb_files, zip) ==
    \E i \in 1..Len(zip) :
        IF zip[i].filename \notin DOMAIN tlpdb_files THEN TRUE
        ELSE tlpdb_files[zip[i].filename][1].revision = None

\* The loop of get_zip_files over infolist(), when nothing raises.
RECURSIVE ZipRowLoop(_, _, _, _)
ZipRowLoop(tlpdb_files, zip, i, rows) ==
    IF i > Len(zip) THEN rows
    ELSE LET zip_info == zip[i]
             filename == zip_info.filename
             row == ZipRow(filename,
                           tlpdb_files[filename][1].revision,
                           hash_message(HashedSlice(zip, zip_info)),
                           StartOffset(zip_info), EndOffset(zip_info))
         IN  ZipRowLoop(tlpdb_files, zip, i + 1,
                        IF filename \in DOMAIN rows
                        THEN [rows EXCEPT ![filename] = row]
                        ELSE rows @@ (filename :> row))

get_zip_files(tlpdb_files, zip) == ZipRowLoop(tlpdb_files, zip, 1, EmptyDict)

-----------------------------------------------------------------------------
(* The Table Encoder/Signer.                                               *)

Contains(s, sub) ==
    \E i \in 1..(Len(s) - Len(sub) + 1) : SubSeq(s, i, i + Len(sub) - 1) = sub

EndsWith(s, suffix) ==
    /\ Len(suffix) <= Len(s)
    /\ SubSeq(s, Len(s) - Len(suffix) + 1, Len(s)) = suffix

\* s.encode("utf-8"), a byte per element; "0xC3" and "0xA9" are the two
\* bytes of U+00E9.
RECURSIVE Utf8Encode(_)
Utf8Encode(s) ==
    IF s = <<>> THEN <<>>
    ELSE (IF Head(s) = "U+00E9" THEN <<"0xC3", "0xA9">> ELSE <<Head(s)>>)
         \o Utf8Encode(Tail(s))

\* repr(s)[1:] of a bytes object: the quote is ' unless s holds ' and no ".
PyReprQuote(s) ==
    IF Contains(s, <<"'">>) /\ ~Contains(s, <<"\"">>) THEN "\"" ELSE "'"

RECURSIVE PyReprBody(_, _)
PyReprBody(s, quote) ==
    IF s = <<>> THEN <<>>
    ELSE (CASE Head(s) = quote  -> <<"\\", quote>>
            [] Head(s) = "\\"   -> <<"\\", "\\">>
            [] Head(s) = "\t"   -> <<"\\", "t">>
            [] Head(s) = "\n"   -> <<"\\", "n">>
            [] Head(s) = "\r"   -> <<"\\", "r">>
            [] Head(s) = "0xC3" -> <<"\\", "x", "c", "3">>
            [] Head(s) = "0xA9" -> <<"\\", "x", "a", "9">>
            [] OTHER            -> <<Head(s)>>)
         \o PyReprBody(Tail(s), quote)

PyRepr(s) ==
    <<PyReprQuote(s)>> \o PyReprBody(s, PyReprQuote(s)) \o <<PyReprQuote(s)>>

\* lua_string on bytes: Some(literal), or None when it raises ValueError.
lua_string(s) ==
    IF Contains(s, <<"\r">>) \/ Contains(s, <<"\n">>)
    THEN Some(PyRepr(s))
    ELSE IF ~Contains(s, <<"\"">>) /\ ~Contains(s, <<"\\">>)
    THEN Some(<<"\"">> \o s \o <<"\"">>)
    ELSE IF ~Contains(s, <<"]", "]">>) /\ ~EndsWith(s, <<"]">>)
    THEN Some(<<"[", "[">> \o s \o <<"]", "]">>)
    ELSE IF ~Contains(s, <<"]", "=", "]">>)
    THEN Some(<<"[", "=", "[">> \o s \o <<"]", "=", "]">>)
    ELSE None

AsciiLetters ==
    {"a", "b", "c", "d", "e", "f", "g", "h", "i", "j", "k", "l", "m", "n",
     "o", "p", "q", "r", "s", "t", "u", "v", "w", "x", "y", "z",
     "A", "B", "C", "D", "E", "F", "G", "H", "I", "J", "K", "L", "M", "N",
     "O", "P", "Q", "R", "S", "T", "U", "V", "W", "X", "Y", "Z"}

\* bytes.isalpha()
IsAlpha(s) == s # <<>> /\ \A i \in 1..Len(s) : s[i] \in AsciiLetters

\* lua_key on bytes: Some(key), or None when lua_string raises.
lua_key(s) ==
    IF IsAlpha(s) THEN Some(s)
    ELSE LET lit == lua_string(s)
         IN  IF lit = None THEN None
             ELSE IF StartsWith(lit[1], <<"[">>)
                  THEN Some(<<"[", " ">> \o lit[1] \o <<" ", "]">>)
                  ELSE Some(<<"[">> \o lit[1] \o <<"]">>)

\* str(n).encode() for n >= 0
RECURSIVE Decimal(_)
Decimal(n) ==
    LET digit == <<"0", "1", "2", "3", "4", "5", "6", "7", "8", "9">>[(n % 10) + 1]
    IN  IF n < 10 THEN <<digit>> ELSE Decimal(n \div 10) \o <<digit>>

\* The sort key of save_database: (revision, path).
RowSortKey(row) == <<row.revision[1], row.path>>

\* sorted(files.items(), key=...), for the order in which the dictionary
\* is iterated: a sequence of [key, value] with value = <<filename, row>>.
SortedRows(files, iteration) ==
    SortedItems([i \in 1..Len(iteration) |->
                    [key   |-> RowSortKey(files[iteration[i]]),
                     value |-> <<iteration[i], files[iteration[i]]>>]])

\* What encoding one row raises, or "none".  lua_string(row.path) encodes
\* the str as ASCII first; badDigest is the filename whose digest
\* lua_string cannot represent (None when every digest can be).
RowError(filename, row, badDigest) ==
    IF lua_key(Utf8Encode(filename)) = None THEN "ValueError"
    ELSE IF ~IsAscii(row.path) THEN "UnicodeEncodeError"
    ELSE IF lua_string(row.path) = None THEN "ValueError"
    ELSE IF badDigest = Some(filename) THEN "ValueError"
    ELSE "none"

\* The exception the loop of save_database raises: that of the first row,
\* in sorted order, that raises one.
RECURSIVE EncodeError(_, _)
EncodeError(rows, badDigest) ==
    IF rows = <<>> THEN "none"
    ELSE LET here == RowError(Head(rows).value[1], Head(rows).value[2],
                              badDigest)
         IN  IF here # "none" THEN here
             ELSE EncodeError(Tail(rows), badDigest)

\* The literal of one row: the items of the list `output`.
RowLiteral(filename, row) ==
    [key      |-> lua_key(Utf8Encode(filename))[1],
     source   |-> row.kind,
     path     |-> lua_string(row.path)[1],
     revision |-> Decimal(row.revision[1]),
     hash     |-> row.hash,
     offset   |-> IF row.kind = "zip"
                  THEN Some(<<Decimal(row.start_offset),
                              Decimal(row.end_offset)>>)
                  ELSE None]

\* data: the literals of the rows, in sorted order.
TableData(rows) ==
    [i \in 1..Len(rows) |-> RowLiteral(rows[i].value[1], rows[i].value[2])]

gzip_compress(data) == [gzip |-> data, compresslevel |-> 9]

\* create_signature raises ValueError for a key of the wrong length.
SignFails(secret_key) ==
    \/ Len(secret_key) # SECRET_KEY_LENGTH
    \/ Len(LIBHYDROGEN_CONTEXT) # CONTEXT_LENGTH

\* A variant that signs the uncompressed literal instead of compressed_data.
DatabaseBytes_SignLiteral(rows, secret_key) ==
    LET compressed_data == gzip_compress(TableData(rows))
    IN  <<compressed_data, create_signature(TableData(rows), secret_key)>>

\* The bytes save_database writes: compressed_data, then signature.
DatabaseBytes(rows, secret_key) ==
    LET compressed_data == gzip_compress(TableData(rows))
    IN  <<compressed_data, create_signature(compressed_data, secret_key)>>

\* len(compressed_data): the gzip header and trailer, and a deflate stream
\* that grows with the literal.
GzipLen(compressed_data) == 10 + (2 + Len(compressed_data.gzip)) + 8

\* The bytes of an opaque value of libhydrogen or gzip, n bytes long.
BlobBytes(blob, n) == [i \in 1..n |-> [of |-> blob, index |-> i]]

\* The contents of the output file after f.write(compressed_data) and
\* f.write(signature): one byte string, the signature a c_uint8 array of
\* SIGNATURE_LENGTH bytes.
OutputFileBytes(db) ==
    BlobBytes(db[1], GzipLen(db[1])) \o BlobBytes(db[2], SIGNATURE_LENGTH)

\* A variant that opens the output file before the table is signed.
save_database_OpenFirst(file, rows, badDigest, secret_key) ==
    LET raised == EncodeError(rows, badDigest)
    IN  IF raised # "none"
    THEN [raised |-> raised, file |-> file, wrote |-> FALSE]
    ELSE IF SignFails(secret_key)
    THEN [raised |-> "ValueError", file |-> Some(<<>>), wrote |-> TRUE]
    ELSE [raised |-> "none", file |-> Some(DatabaseBytes(rows, secret_key)),
          wrote |-> TRUE]

\* save_database on the sorted rows: the exception it raises ("none" when it
\* returns) and the output file it leaves, given the file that was there.
\* The file is opened only after the table is encoded and signed.
save_database(file, rows, badDigest, secret_key) ==
    LET raised == EncodeError(rows, badDigest)
    IN  IF raised # "none"
    THEN [raised |-> raised, file |-> file, wrote |-> FALSE]
    ELSE IF SignFails(secret_key)
    THEN [raised |-> "ValueError", file |-> file, wrote |-> FALSE]
    ELSE [raised |-> "none", file |-> Some(DatabaseBytes(rows, secret_key)),
          wrote |-> TRUE]

\* The secret keys of the model: one of SECRET_KEY_LENGTH bytes, and one of
\* half that length.
SecretKeys ==
    { [i \in 1..SECRET_KEY_LENGTH |-> 0],
      [i \in 1..(SECRET_KEY_LENGTH \div 2) |-> 0] }

-----------------------------------------------------------------------------
(* The artifacts a previous run may have left in the output directory.     *)

StaleZip ==
    << ZipInfo(FileEntry(FilenameOf(tex_latex_b_x_sty), tex_latex_b_x_sty,
                         "tlpdb", None, Some(1)), 0) >>

StaleDatabase == DatabaseBytes(<<>>, [i \in 1..SECRET_KEY_LENGTH |-> 1])

-----------------------------------------------------------------------------
(* run().                                                                  *)

Init ==
    /\ tlpdb \in TlpdbTexts
    /\ ctan \in CtanTexts
    /\ dirs \in SUBSET DirCandidates
    /\ \E previous \in BOOLEAN :
          /\ zipFile = IF previous THEN Some(StaleZip) ELSE None
          /\ dbFile = IF previous THEN Some(StaleDatabase) ELSE None
    /\ pc = "start"
    /\ error = "none"
    /\ ctan_files = EmptyDict
    /\ all_tlpdb_files = EmptyDict
    /\ zip_tlpdb_files = EmptyDict
    /\ ctan_missing = {}
    /\ ctan_found = EmptyDict
    /\ zip_files = EmptyDict
    /\ written = {}
    /\ arg = <<>>
    /\ literal = None

Raise(exception) ==
    /\ pc' = "failed"
    /\ error' = exception

\* ctan_files = filelist_from_ctan(ctan)
FilelistFromCtan ==
    /\ pc = "start"
    /\ ctan_files' = filelist_from_ctan(ctan)
    /\ pc' = "ctan_parsed"
    /\ UNCHANGED <<arg, literal, tlpdb, ctan, dirs, error, all_tlpdb_files, zip_tlpdb_files,
                   ctan_missing, ctan_found, zip_files, zipFile, dbFile,
                   written>>

\* all_tlpdb_files, zip_tlpdb_files = filelist_from_tlpdb(tlpdb)
FilelistFromTlpdb ==
    /\ pc = "ctan_parsed"
    /\ \/ /\ TlpdbFails(tlpdb)
          /\ Raise("ValueError")
          /\ UNCHANGED <<all_tlpdb_files, zip_tlpdb_files>>
       \/ /\ ~TlpdbFails(tlpdb)
          /\ all_tlpdb_files' = TlpdbAllFiles(tlpdb)
          /\ zip_tlpdb_files' = TlpdbZipFiles(tlpdb)
          /\ pc' = "parsed"
          /\ UNCHANGED error
    /\ UNCHANGED <<arg, literal, tlpdb, ctan, dirs, ctan_files, ctan_missing, ctan_found,
                   zip_files, zipFile, dbFile, written>>

\* generate_zip: ctan_missing = get_missing_ctan_files(zip_tlpdb_files,
\* ctan_files)
GetMissingCtanFiles ==
    /\ pc = "parsed"
    /\ ctan_missing' = get_missing_ctan_files(zip_tlpdb_files, ctan_files)
    /\ pc' = "missing"
    /\ UNCHANGED <<arg, literal, tlpdb, ctan, dirs, error, ctan_files, all_tlpdb_files,
                   zip_tlpdb_files, ctan_found, zip_files, zipFile, dbFile,
                   written>>

\* create_zip(output_file, texmf_dist, ctan_missing): the file at the output
\* path is unlinked and the archive written in its place.
CreateZip ==
    /\ pc = "missing"
    /\ \E iteration \in Orderings(ctan_missing) :
          zipFile' = Some(create_zip(iteration))
    /\ written' = written \cup {"zip"}
    /\ pc' = "zipped"
    /\ UNCHANGED <<arg, literal, tlpdb, ctan, dirs, error, ctan_files, all_tlpdb_files,
                   zip_tlpdb_files, ctan_missing, ctan_found, zip_files,
                   dbFile>>

\* not generate_zip
SkipZip ==
    /\ pc = "parsed"
    /\ pc' = "zip_skipped"
    /\ UNCHANGED <<arg, literal, tlpdb, ctan, dirs, error, ctan_files, all_tlpdb_files,
                   zip_tlpdb_files, ctan_missing, ctan_found, zip_files,
                   zipFile, dbFile, written>>

\* generate_database and not generate_zip
DatabaseWithoutZip ==
    /\ pc = "zip_skipped"
    /\ Raise("NotImplementedError")
    /\ UNCHANGED <<arg, literal, tlpdb, ctan, dirs, ctan_files, all_tlpdb_files,
                   zip_tlpdb_files, ctan_missing, ctan_found, zip_files,
                   zipFile, dbFile, written>>

\* not generate_database
SkipDatabase ==
    /\ pc \in {"zipped", "zip_skipped"}
    /\ pc' = "done"
    /\ UNCHANGED <<arg, literal, tlpdb, ctan, dirs, error, ctan_files, all_tlpdb_files,
                   zip_tlpdb_files, ctan_missing, ctan_found, zip_files,
                   zipFile, dbFile, written>>

\* generate_database: ctan_found = get_found_ctan_files(all_tlpdb_files,
\* ctan_files, texmf_dist)
GetFoundCtanFiles ==
    /\ pc = "zipped"
    /\ \/ /\ FoundFails(all_tlpdb_files, ctan_files)
          /\ Raise("ValueError")
          /\ UNCHANGED ctan_found
       \/ /\ ~FoundFails(all_tlpdb_files, ctan_files)
          /\ ctan_found' = get_found_ctan_files(all_tlpdb_files, ctan_files)
          /\ pc' = "found"
          /\ UNCHANGED error
    /\ UNCHANGED <<arg, literal, tlpdb, ctan, dirs, ctan_files, all_tlpdb_files,
                   zip_tlpdb_files, ctan_missing, zip_files, zipFile, dbFile,
                   written>>

\* A variant of get_zip_files that skips an archive name that is no key of
\* tlpdb_files instead of raising.
GetZipFiles_SkipsUnknown ==
    /\ pc = "found"
    /\ LET known == SelectSeq(zipFile[1],
                        LAMBDA info : info.filename \in DOMAIN zip_tlpdb_files)
       IN  \/ /\ ZipFilesFails(zip_tlpdb_files, known)
              /\ Raise("ValueError")
              /\ UNCHANGED zip_files
           \/ /\ ~ZipFilesFails(zip_tlpdb_files, known)
              /\ zip_files' = get_zip_files(zip_tlpdb_files, known)
              /\ pc' = "zip_read"
              /\ UNCHANGED error
    /\ UNCHANGED <<arg, literal, tlpdb, ctan, dirs, ctan_files, all_tlpdb_files,
                   zip_tlpdb_files, ctan_missing, ctan_found, zipFile, dbFile,
                   written>>

\* zip_files = get_zip_files(zip_tlpdb_files, output_directory / ZIP_NAME,
\* texmf_dist)
GetZipFiles ==
    /\ pc = "found"
    /\ \/ /\ ZipFilesFails(zip_tlpdb_files, zipFile[1])
          /\ Raise("ValueError")
          /\ UNCHANGED zip_files
       \/ /\ ~ZipFilesFails(zip_tlpdb_files, zipFile[1])
          /\ zip_files' = get_zip_files(zip_tlpdb_files, zipFile[1])
          /\ pc' = "zip_read"
          /\ UNCHANGED error
    /\ UNCHANGED <<arg, literal, tlpdb, ctan, dirs, ctan_files, all_tlpdb_files,
                   zip_tlpdb_files, ctan_missing, ctan_found, zipFile, dbFile,
                   written>>

\* files = ctan_found | zip_files
MergedFiles(found, zipped) ==
    [filename \in (DOMAIN found) \cup (DOMAIN zipped) |->
        IF filename \in DOMAIN zipped THEN zipped[filename]
        ELSE found[filename]]

\* save_database(output_file, ctan_found | zip_files, secret_key)
SaveDatabase ==
    /\ pc = "zip_read"
    /\ LET files == MergedFiles(ctan_found, zip_files)
       IN  \E iteration \in Orderings(DOMAIN files) :
           LET rows == SortedRows(files, iteration)
           IN  \E badDigest \in {None} \cup {Some(f) : f \in DOMAIN files},
                  secret_key \in SecretKeys :
              LET result == save_database(dbFile, rows, badDigest, secret_key)
              IN  /\ dbFile' = result.file
                  /\ written' = IF result.wrote
                                THEN written \cup {"database"} ELSE written
                  /\ error' = result.raised
                  /\ pc' = IF result.raised = "none" THEN "done" ELSE "failed"
    /\ UNCHANGED <<arg, literal, tlpdb, ctan, dirs, ctan_files, all_tlpdb_files,
                   zip_tlpdb_files, ctan_missing, ctan_found, zip_files,
                   zipFile>>

Next ==
    \/ FilelistFromCtan
    \/ FilelistFromTlpdb
    \/ GetMissingCtanFiles
    \/ CreateZip
    \/ SkipZip
    \/ DatabaseWithoutZip
    \/ SkipDatabase
    \/ GetFoundCtanFiles
    \/ GetZipFiles
    \/ SaveDatabase

Spec == Init /\ [][Next]_vars

-----------------------------------------------------------------------------
(* get_zip_files on an archive file that this catalog did not produce: the *)
(* archive at zip_path was built from an older tlpdb, and the catalog has  *)
(* since lost one of its package blocks.  The run stands after             *)
(* get_found_ctan_files, about to read the archive; no catalogued path is  *)
(* a directory.                                                            *)

\* The catalog text without its k-th package block.
DropBlock(text, k) == SubSeq(text, 1, k - 1) \o SubSeq(text, k + 1, Len(text))

InitExtract ==
    /\ ctan \in CtanTexts
    /\ dirs = {}
    /\ \E older \in TlpdbTexts :
          /\ ~TlpdbFails(older)
          /\ tlpdb \in {older} \cup {DropBlock(older, k) : k \in 1..Len(older)}
          /\ \E iteration \in Orderings(
                    get_missing_ctan_files(TlpdbZipFiles(older),
                                           filelist_from_ctan(ctan))) :
                zipFile = Some(create_zip(iteration))
    /\ dbFile \in {None, Some(StaleDatabase)}
    /\ ctan_files = filelist_from_ctan(ctan)
    /\ all_tlpdb_files = TlpdbAllFiles(tlpdb)
    /\ zip_tlpdb_files = TlpdbZipFiles(tlpdb)
    /\ ctan_missing = get_missing_ctan_files(zip_tlpdb_files, ctan_files)
    /\ ~FoundFails(all_tlpdb_files, ctan_files)
    /\ ctan_found = get_found_ctan_files(all_tlpdb_files, ctan_files)
    /\ zip_files = EmptyDict
    /\ pc = "found"
    /\ error = "none"
    /\ written = {"zip"}
    /\ arg = <<>>
    /\ literal = None

NextExtract ==
    \/ GetZipFiles
    \/ SaveDatabase

SpecExtract == InitExtract /\ [][NextExtract]_vars

-----------------------------------------------------------------------------
(* lua_string and lua_key on their own: the argument is any byte string of *)
(* at most MaxLen bytes over the bytes that decide a branch of either      *)
(* function (quotes, backslash, bracket, equals sign, a line feed, letters *)
(* and a digit), and one call is made.                                     *)

EncoderBytes == {"\"", "'", "\\", "]", "=", "\n", "o", "r", "1"}

RECURSIVE ByteStrings(_)
ByteStrings(n) ==
    IF n = 0 THEN {<<>>}
    ELSE ByteStrings(n - 1)
         \cup {Append(prefix, b) :
                  prefix \in {p \in ByteStrings(n - 1) : Len(p) = n - 1},
                  b \in EncoderBytes}

InitEncode ==
    /\ arg \in ByteStrings(MaxLen)
    /\ literal = None
    /\ pc = "encode"
    /\ error = "none"
    /\ tlpdb = <<>>
    /\ ctan = <<>>
    /\ dirs = {}
    /\ ctan_files = EmptyDict
    /\ all_tlpdb_files = EmptyDict
    /\ zip_tlpdb_files = EmptyDict
    /\ ctan_missing = {}
    /\ ctan_found = EmptyDict
    /\ zip_files = EmptyDict
    /\ zipFile = None
    /\ dbFile = None
    /\ written = {}

\* lua_string(arg)
LuaString ==
    /\ pc = "encode"
    /\ literal' = lua_string(arg)
    /\ IF lua_string(arg) = None
       THEN Raise("ValueError")
       ELSE pc' = "string_encoded" /\ UNCHANGED error
    /\ UNCHANGED <<arg, tlpdb, ctan, dirs, ctan_files, all_tlpdb_files,
                   zip_tlpdb_files, ctan_missing, ctan_found, zip_files,
                   zipFile, dbFile, written>>

\* lua_key(arg)
LuaKey ==
    /\ pc = "encode"
    /\ literal' = lua_key(arg)
    /\ IF lua_key(arg) = None
       THEN Raise("ValueError")
       ELSE pc' = "key_encoded" /\ UNCHANGED error
    /\ UNCHANGED <<arg, tlpdb, ctan, dirs, ctan_files, all_tlpdb_files,
                   zip_tlpdb_files, ctan_missing, ctan_found, zip_files,
                   zipFile, dbFile, written>>

NextEncode ==
    \/ LuaString
    \/ LuaKey

SpecEncode == InitEncode /\ [][NextEncode]_vars

-----------------------------------------------------------------------------
(* Properties.                                                             *)

\* The filenames of the missing set handed to create_zip.
MissingNames == {entry.filename : entry \in ctan_missing}

\* An index holds two records with different paths for the filename.
Ambiguous(files, filename) ==
    /\ filename \in DOMAIN files
    /\ \E i, j \in 1..Len(files[filename]) :
          files[filename][i].path # files[filename][j].path

AllNames ==
    (DOMAIN all_tlpdb_files) \cup (DOMAIN ctan_files)

\* C1, as claimed: a filename with two records of different paths in the full
\* catalog-A index or in the catalog-B index is neither in the missing set
\* nor in the found map.
C1_AmbiguityExclusion_Claimed ==
    \A filename \in AllNames :
        (Ambiguous(all_tlpdb_files, filename) \/ Ambiguous(ctan_files, filename))
        => /\ filename \notin MissingNames
           /\ filename \notin DOMAIN ctan_found

\* C1, amended: ambiguity is judged in the index each operation reads.  A
\* filename ambiguous in the full catalog-A index or in the catalog-B index
\* is not in the found map; a filename ambiguous in the bundle subset of
\* catalog A (zip_tlpdb_files) or in the catalog-B index is not in the
\* missing set.
C1_AmbiguityExclusion ==
    \A filename \in AllNames :
        /\ (Ambiguous(all_tlpdb_files, filename)
               \/ Ambiguous(ctan_files, filename))
           => filename \notin DOMAIN ctan_found
        /\ (Ambiguous(zip_tlpdb_files, filename)
               \/ Ambiguous(ctan_files, filename))
           => filename \notin MissingNames

\* Both operations have run on a filename that is ambiguous in the full
\* catalog-A index and present in catalog B, and both returned something.
C1_Witness ==
    /\ pc = "found"
    /\ ctan_missing # {}
    /\ ctan_found # EmptyDict
    /\ \E filename \in DOMAIN ctan_files :
          /\ Ambiguous(all_tlpdb_files, filename)
          /\ ~Ambiguous(ctan_files, filename)

\* The table run() passes to save_database.
FinalTable == MergedFiles(ctan_found, zip_files)

\* The run returned after save_database wrote the table.
Completed == pc = "done" /\ "database" \in written

\* The rows of the table file the run wrote.
WrittenRows == dbFile[1][1].gzip

\* The filenames with exactly one record in each catalog index and a
\* revision on the catalog-A record.
UniqueInBoth ==
    {filename \in (DOMAIN all_tlpdb_files) \cap (DOMAIN ctan_files) :
        /\ Len(all_tlpdb_files[filename]) = 1
        /\ Len(ctan_files[filename]) = 1
        /\ all_tlpdb_files[filename][1].revision # None}

\* The number of rows written for a filename.
RowsFor(filename) ==
    Cardinality({i \in 1..Len(WrittenRows) :
                    WrittenRows[i].key = lua_key(Utf8Encode(filename))[1]})

\* C2, as claimed: after a run that completes, every filename with one
\* record in each index and a catalog-A revision is a key of the final
\* table, with exactly one entry.
C2_SparseCompleteness_Claimed ==
    Completed =>
        \A filename \in UniqueInBoth :
            filename \in DOMAIN FinalTable /\ RowsFor(filename) = 1

\* C2, amended: ... unless the catalog-A path of the file names a directory
\* under texmf_dist; such a filename is in no table.
C2_SparseCompleteness ==
    Completed =>
        \A filename \in UniqueInBoth :
            IF all_tlpdb_files[filename][1].path \in dirs
            THEN filename \notin DOMAIN FinalTable /\ RowsFor(filename) = 0
            ELSE filename \in DOMAIN FinalTable /\ RowsFor(filename) = 1

\* A completed run with two such filenames, one of them a directory.
C2_Witness ==
    /\ Completed
    /\ \E f, g \in UniqueInBoth :
          /\ all_tlpdb_files[f][1].path \in dirs
          /\ all_tlpdb_files[g][1].path \notin dirs

\* C3: the keys of the Remote map and of the Bundled map are disjoint, the
\* merge keeps every Remote entry, and the written table has one row per
\* filename.
C3_DisjointKinds ==
    /\ (DOMAIN ctan_found) \cap (DOMAIN zip_files) = {}
    /\ \A filename \in DOMAIN ctan_found :
          FinalTable[filename] = ctan_found[filename]
    /\ Completed =>
          /\ Len(WrittenRows) = Cardinality(DOMAIN FinalTable)
          /\ \A filename \in DOMAIN FinalTable : RowsFor(filename) = 1

\* A completed run whose table holds entries of both kinds.
C3_Witness ==
    /\ Completed
    /\ ctan_found # EmptyDict
    /\ zip_files # EmptyDict

\* The archive the run wrote.
Archive == zipFile[1]

\* The compressed payload of entry i of an archive: its data bytes.
Payload(zip, i) ==
    [k \in 1..zip[i].compress_size |->
        [part |-> "data", entry |-> i, index |-> k - 1]]

\* C4, as claimed: the digest of every Bundled entry is computed over the
\* archive bytes from start_offset up to, not including, end_offset.
C4_DigestOverByteRange_Claimed ==
    pc = "zip_read" =>
        \A filename \in DOMAIN zip_files :
            zip_files[filename].hash =
                hash_message(ZipSlice(Archive, zip_files[filename].start_offset,
                                      zip_files[filename].end_offset))

\* C5, as claimed: for every entry of the archive the recorded range starts
\* after the local header, the name and the extra field, ends compress_size
\* bytes later, and holds exactly the compressed payload of the entry.
C5_OffsetsArePayload_Claimed ==
    pc = "zip_read" =>
        \A i \in 1..Len(Archive) :
            LET row == zip_files[Archive[i].filename]
            IN  /\ row.end_offset = row.start_offset + Archive[i].compress_size
                /\ ZipSlice(Archive, row.start_offset, row.end_offset)
                       = Payload(Archive, i)

\* C6, as claimed: when run() ends with an exception, no artifact written
\* by the run remains, neither the archive nor the signed table.
C6_NoArtifactsOnFailure_Claimed ==
    pc = "failed" =>
        /\ ~("zip" \in written /\ zipFile # None)
        /\ ~("database" \in written /\ dbFile # None)

\* C6, amended: when run() ends with an exception, the run has written no
\* signed table, and the table file is as it was before the run (the archive
\* create_zip wrote before the failing stage stays in place).
C6_NoArtifactsOnFailure ==
    pc = "failed" =>
        /\ "database" \notin written
        /\ dbFile \in {None, Some(StaleDatabase)}

\* save_database itself raised, after the archive was written and read.
C6_Witness ==
    /\ pc = "failed"
    /\ "zip" \in written
    /\ zip_files # EmptyDict
    /\ dbFile = Some(StaleDatabase)

\* A filename get_found_ctan_files selects has no catalog-A revision.
NoRevisionSelected ==
    \E filename \in FoundCandidates(all_tlpdb_files, ctan_files) :
        all_tlpdb_files[filename][1].revision = None

\* An entry of the archive the run wrote has no catalog-A revision.
NoRevisionArchived ==
    /\ "zip" \in written
    /\ \E i \in 1..Len(Archive) :
          /\ Archive[i].filename \in DOMAIN zip_tlpdb_files
          /\ zip_tlpdb_files[Archive[i].filename][1].revision = None

\* C7: every Remote and Bundled entry carries a revision; a run with a
\* selected or archived file that lacks one does not get past the operation
\* that reads it, emits no entry, writes no signed table, and ends with
\* ValueError once it has reached the database stage.
C7_RevisionAlwaysPresent ==
    /\ \A filename \in DOMAIN ctan_found : ctan_found[filename].revision # None
    /\ \A filename \in DOMAIN zip_files : zip_files[filename].revision # None
    /\ NoRevisionSelected =>
          /\ pc \notin {"found", "zip_read"}
          /\ "database" \notin written
          /\ ctan_found = EmptyDict
    /\ NoRevisionArchived =>
          /\ pc # "zip_read"
          /\ "database" \notin written
          /\ zip_files = EmptyDict
    /\ (NoRevisionSelected \/ NoRevisionArchived)
          /\ "zip" \in written /\ pc = "failed"
       => error = "ValueError"

\* get_zip_files raised ValueError for an archived file without a revision,
\* after get_found_ctan_files returned entries.
C7_Witness ==
    /\ pc = "failed"
    /\ error = "ValueError"
    /\ NoRevisionArchived
    /\ ~NoRevisionSelected
    /\ ctan_found # EmptyDict

\* C8: the archive create_zip writes is the same for every order in which
\* the input set is iterated and whatever file was at the output path, and
\* every entry carries the pinned metadata.
C8_ArchiveDeterminism ==
    pc = "zipped" =>
        /\ \A iteration \in Orderings(ctan_missing) :
              zipFile = Some(create_zip(iteration))
        /\ \A i \in 1..Len(Archive) :
              /\ Archive[i].date_time = <<1980, 1, 1, 0, 0, 0>>
              /\ Archive[i].external_attr = 292 * 65536
              /\ Archive[i].create_system = 3
              /\ Archive[i].compress_type = "ZIP_DEFLATED"
              /\ Archive[i].compresslevel = 9

\* An archive of several entries written over the archive of an earlier run.
C8_Witness ==
    /\ pc = "zipped"
    /\ Len(Archive) >= 2
    /\ dbFile = Some(StaleDatabase)
    /\ \E e1, e2 \in ctan_missing : e1 # e2 /\ e1.revision = e2.revision

\* The record of the missing set an archive entry was written from.
SourceRecord(info) ==
    CHOOSE entry \in ctan_missing :
        entry.filename = info.filename /\ entry.path = info.source

\* (revision, path) of e1 <= (revision, path) of e2, a missing revision
\* counting as -1.
SourceOrdered(e1, e2) ==
    LET r1 == IF e1.revision = None THEN -1 ELSE e1.revision[1]
        r2 == IF e2.revision = None THEN -1 ELSE e2.revision[1]
    IN  \/ r1 < r2
        \/ r1 = r2 /\ ~StrLess(e2.path, e1.path)

\* C9: consecutive entries of the archive are in (revision, path) order of
\* their source records.
C9_ArchiveOrdering ==
    "zip" \in written =>
        \A i \in 1..(Len(Archive) - 1) :
            SourceOrdered(SourceRecord(Archive[i]), SourceRecord(Archive[i + 1]))

\* An archive of two entries or more, with a directory skipped between two
\* of them.
C9_Witness ==
    /\ pc = "zipped"
    /\ Len(Archive) >= 2
    /\ \E skipped \in ctan_missing :
          /\ IsDirectory(skipped.path)
          /\ \E i \in 1..(Len(Archive) - 1) :
                /\ SourceOrdered(SourceRecord(Archive[i]), skipped)
                /\ SourceOrdered(skipped, SourceRecord(Archive[i + 1]))

\* The filename has a '.', and the text after the last one is an ignored
\* extension.
HasIgnoredExtension(filename) ==
    /\ LastIndexOf(filename, ".") > 0
    /\ SubSeq(filename, LastIndexOf(filename, ".") + 1, Len(filename))
           \in IGNORE_EXTENSIONS

\* The record comes from a package of the tlpdb text that is not ignored.
FromKeptPackage(entry) ==
    \E i \in 1..Len(tlpdb) :
        /\ tlpdb[i].name # None
        /\ tlpdb[i].name[1] \notin IGNORE_PACKAGES
        /\ tlpdb[i].revision = entry.revision
        /\ \E j \in 1..Len(tlpdb[i].lines) : tlpdb[i].lines[j].path = entry.path

\* The reference set of C10.
ReferenceMissing ==
    {zip_tlpdb_files[filename][1] :
        filename \in {f \in (DOMAIN zip_tlpdb_files) \ (DOMAIN ctan_files) :
                         /\ ~HasIgnoredExtension(f)
                         /\ Len(zip_tlpdb_files[f]) = 1}}

\* C10, as claimed: the missing set is the set of the sole records of the
\* filenames of the source index that are not in the reference index, whose
\* extension (the text after the last '.') is not ignored and that have one
\* source record; no record of an ignored package is among them.
C10_MissingIsReference_Claimed ==
    pc = "missing" =>
        /\ ctan_missing = ReferenceMissing
        /\ \A entry \in ctan_missing : FromKeptPackage(entry)

\* What a reader of the table file takes as the signature and as the table.
ReaderSignature(file) == SubSeq(file, Len(file) - 63, Len(file))

ReaderTable(file) == SubSeq(file, 1, Len(file) - 64)

\* C11: the table file a run wrote is the compressed bytes of the final
\* table followed by the 64 bytes of a signature computed over those
\* compressed bytes with a 64-byte key and the 8-byte context, so the last
\* 64 bytes are the signature and everything before them is the compressed
\* table; the file is written only by a run whose signing succeeded, and is
\* otherwise what it was before the run.
C11_SignedFileLayout ==
    /\ "database" \in written =>
          /\ pc = "done" /\ error = "none"
          /\ LET file == OutputFileBytes(dbFile[1])
             IN  \E iteration \in Orderings(DOMAIN FinalTable),
                    secret_key \in SecretKeys :
                   LET compressed_data ==
                         gzip_compress(
                             TableData(SortedRows(FinalTable, iteration)))
                       signature ==
                         create_signature(compressed_data, secret_key)
                   IN  /\ Len(secret_key) = 64
                       /\ Len(signature.context) = 8
                       /\ signature.signed = compressed_data
                       /\ Len(file) = GzipLen(compressed_data) + 64
                       /\ ReaderTable(file)
                             = BlobBytes(compressed_data,
                                         GzipLen(compressed_data))
                       /\ ReaderSignature(file) = BlobBytes(signature, 64)
    /\ "database" \notin written => dbFile \in {None, Some(StaleDatabase)}

\* A completed run wrote a table of a Remote and a Bundled row.
C11_Witness ==
    /\ Completed
    /\ \E i, j \in 1..Len(WrittenRows) :
          WrittenRows[i].source = "ctan" /\ WrittenRows[j].source = "zip"

\* The archive holds a name that is no key of the index get_zip_files is
\* given.
UnknownArchiveName ==
    \E i \in 1..Len(Archive) :
        Archive[i].filename \notin DOMAIN zip_tlpdb_files

\* C12: once get_zip_files has read an archive holding a name absent from
\* the catalog index, the run has failed with ValueError, no Bundled entry
\* was emitted for any name of the archive, and the signed table is not
\* written: the table file is what it was.
C12_UnknownNameIsFatal ==
    (pc # "found" /\ UnknownArchiveName) =>
        /\ pc = "failed"
        /\ error = "ValueError"
        /\ zip_files = EmptyDict
        /\ "database" \notin written
        /\ dbFile \in {None, Some(StaleDatabase)}

\* get_zip_files failed on an archive whose first entry is in the index,
\* with a revision, and a later one is not.
C12_Witness ==
    /\ pc = "failed"
    /\ \E i, j \in 1..Len(Archive) :
          /\ i < j
          /\ Archive[i].filename \in DOMAIN zip_tlpdb_files
          /\ zip_tlpdb_files[Archive[i].filename][1].revision # None
          /\ Archive[j].filename \notin DOMAIN zip_tlpdb_files

-----------------------------------------------------------------------------
(* The target table syntax: how Lua 5.3 reads a string literal and a table *)
(* key (reference manual, section 3.1).                                    *)

\* The byte an escape sequence \c of a short string denotes, or None.
LuaEscape(c) ==
    CASE c = "n"  -> Some("\n")
      [] c = "r"  -> Some("\r")
      [] c = "t"  -> Some("\t")
      [] c = "\\" -> Some("\\")
      [] c = "\"" -> Some("\"")
      [] c = "'"  -> Some("'")
      [] OTHER    -> None

\* The byte \xh1h2 denotes, for the hexadecimal pairs of the model.
LuaHexEscape(h1, h2) ==
    CASE <<h1, h2>> = <<"c", "3">> -> Some("0xC3")
      [] <<h1, h2>> = <<"a", "9">> -> Some("0xA9")
      [] OTHER                     -> None

\* The rest of a short string opened by quote, read from position i: the
\* bytes it denotes, or None when it is malformed, unfinished, or followed
\* by anything after the closing quote.
RECURSIVE LuaShortString(_, _, _)
LuaShortString(text, i, quote) ==
    IF i > Len(text) THEN None
    ELSE IF text[i] = quote
    THEN IF i = Len(text) THEN Some(<<>>) ELSE None
    ELSE IF text[i] \in {"\n", "\r"} THEN None
    ELSE IF text[i] = "\\"
    THEN IF i + 1 > Len(text) THEN None
         ELSE IF text[i + 1] = "x"
         THEN IF i + 3 > Len(text) THEN None
              ELSE LET byte == LuaHexEscape(text[i + 2], text[i + 3])
                       rest == LuaShortString(text, i + 4, quote)
                   IN  IF byte = None \/ rest = None THEN None
                       ELSE Some(<<byte[1]>> \o rest[1])
         ELSE LET byte == LuaEscape(text[i + 1])
                  rest == LuaShortString(text, i + 2, quote)
              IN  IF byte = None \/ rest = None THEN None
                  ELSE Some(<<byte[1]>> \o rest[1])
    ELSE LET rest == LuaShortString(text, i + 1, quote)
         IN  IF rest = None THEN None ELSE Some(<<text[i]>> \o rest[1])

\* The closing long bracket of a level.
LuaClosing(level) ==
    <<"]">> \o [k \in 1..level |-> "="] \o <<"]">>

\* A long-bracket string of the level: it ends at the first closing bracket
\* of that level, and a line break right after the opening is skipped.  None
\* when no closing bracket follows or text goes on after it.
LuaLongString(text, level) ==
    LET first == level + 3
        start == IF first <= Len(text) /\ text[first] \in {"\n", "\r"}
                 THEN first + 1 ELSE first
        ends == {j \in first..(Len(text) - level - 1) :
                    SubSeq(text, j, j + level + 1) = LuaClosing(level)}
    IN  IF ends = {} THEN None
        ELSE LET j == CHOOSE e \in ends : \A other \in ends : e <= other
             IN  IF j + level + 1 # Len(text) THEN None
                 ELSE Some(SubSeq(text, start, j - 1))

\* The string a literal denotes: Some(bytes), or None when text is not
\* exactly one string literal.
LuaReadString(text) ==
    IF text = <<>> THEN None
    ELSE IF text[1] \in {"\"", "'"} THEN LuaShortString(text, 2, text[1])
    ELSE IF StartsWith(text, <<"[", "[">>) THEN LuaLongString(text, 0)
    ELSE IF StartsWith(text, <<"[", "=", "[">>) THEN LuaLongString(text, 1)
    ELSE None

\* C13, as claimed: a literal lua_string returns denotes, read as a Lua
\* string literal, exactly the bytes it was given.
C13_LiteralDenotesArgument_Claimed ==
    pc = "string_encoded" => LuaReadString(literal[1]) = Some(arg)

\* The reserved words of Lua, which are no names.
LuaReservedWords ==
    {<<"a", "n", "d">>,
     <<"b", "r", "e", "a", "k">>,
     <<"d", "o">>,
     <<"e", "l", "s", "e">>,
     <<"e", "l", "s", "e", "i", "f">>,
     <<"e", "n", "d">>,
     <<"f", "a", "l", "s", "e">>,
     <<"f", "o", "r">>,
     <<"f", "u", "n", "c", "t", "i", "o", "n">>,
     <<"g", "o", "t", "o">>,
     <<"i", "f">>,
     <<"i", "n">>,
     <<"l", "o", "c", "a", "l">>,
     <<"n", "i", "l">>,
     <<"n", "o", "t">>,
     <<"o", "r">>,
     <<"r", "e", "p", "e", "a", "t">>,
     <<"r", "e", "t", "u", "r", "n">>,
     <<"t", "h", "e", "n">>,
     <<"t", "r", "u", "e">>,
     <<"u", "n", "t", "i", "l">>,
     <<"w", "h", "i", "l", "e">>}

LuaDigits == {"0", "1", "2", "3", "4", "5", "6", "7", "8", "9"}

\* A name (bare identifier) of Lua: letters, digits and underscores, not
\* beginning with a digit and no reserved word.
IsLuaName(text) ==
    /\ text # <<>>
    /\ text[1] \in AsciiLetters \cup {"_"}
    /\ \A i \in 1..Len(text) : text[i] \in AsciiLetters \cup LuaDigits \cup {"_"}
    /\ text \notin LuaReservedWords

\* text without the spaces at its two ends.
RECURSIVE LuaTrim(_)
LuaTrim(text) ==
    IF text # <<>> /\ Head(text) = " " THEN LuaTrim(Tail(text))
    ELSE IF text # <<>> /\ text[Len(text)] = " "
    THEN LuaTrim(SubSeq(text, 1, Len(text) - 1))
    ELSE text

\* The string a table key denotes: a name denotes itself, [exp] denotes the
\* string literal exp; None when text is neither ("[[" and "[=[" open a
\* long string, not a bracketed key).
LuaReadKey(text) ==
    IF IsLuaName(text) THEN Some(text)
    ELSE IF /\ Len(text) >= 2
            /\ text[1] = "["
            /\ text[Len(text)] = "]"
            /\ ~StartsWith(text, <<"[", "[">>)
            /\ ~StartsWith(text, <<"[", "=", "[">>)
    THEN LuaReadString(LuaTrim(SubSeq(text, 2, Len(text) - 1)))
    ELSE None

\* C14, as claimed: the key lua_key returns is the argument itself exactly
\* when the argument is a valid bare identifier, and, read as a Lua table
\* key, it denotes the argument.
C14_KeyEncoding_Claimed ==
    pc = "key_encoded" =>
        /\ (literal[1] = arg) <=> IsLuaName(arg)
        /\ LuaReadKey(literal[1]) = Some(arg)

-----------------------------------------------------------------------------
(* The archive and the rows read back from it.                             *)

\* C15: the missing set holds at most one record per filename, the names
\* of the entries of the archive the run wrote are pairwise distinct, and
\* get_zip_files returns exactly one Bundled row per entry of the archive.
C15_DistinctEntryNames ==
    /\ \A e1, e2 \in ctan_missing : e1.filename = e2.filename => e1 = e2
    /\ "zip" \in written =>
          \A i, j \in 1..Len(Archive) :
              Archive[i].filename = Archive[j].filename => i = j
    /\ pc = "zip_read" =>
          /\ DOMAIN zip_files = {Archive[i].filename : i \in 1..Len(Archive)}
          /\ Cardinality(DOMAIN zip_files) = Len(Archive)

\* get_zip_files has read a non-empty archive, built from a catalog in
\* which another filename has two records and was left out.
C15_Witness ==
    /\ pc = "zip_read"
    /\ Len(Archive) >= 1
    /\ \E filename \in DOMAIN zip_tlpdb_files :
          /\ Len(zip_tlpdb_files[filename]) > 1
          /\ filename \notin DOMAIN ctan_files

\* The Bundled row recorded for entry i of the archive.
RowOfEntry(i) == zip_files[Archive[i].filename]

\* C16: the ranges [start_offset, end_offset) get_zip_files records lie
\* within the archive, follow the order of its entries (the range of an
\* entry ends at or before the local header of the next entry, so before
\* the start of the next range), and are pairwise disjoint.
C16_RangesDisjointAndOrdered ==
    pc = "zip_read" =>
        /\ \A i \in 1..Len(Archive) :
              /\ 0 <= RowOfEntry(i).start_offset
              /\ RowOfEntry(i).start_offset <= RowOfEntry(i).end_offset
              /\ RowOfEntry(i).end_offset <= ZipLen(Archive)
        /\ \A i \in 1..(Len(Archive) - 1) :
              /\ RowOfEntry(i).end_offset <= Archive[i + 1].header_offset
              /\ RowOfEntry(i).end_offset < RowOfEntry(i + 1).start_offset
        /\ \A f, g \in DOMAIN zip_files :
              f # g => \/ zip_files[f].end_offset <= zip_files[g].start_offset
                       \/ zip_files[g].end_offset <= zip_files[f].start_offset

\* get_zip_files has read an archive of three entries, one of them with a
\* non-ASCII name.
C16_Witness ==
    /\ pc = "zip_read"
    /\ Len(Archive) >= 3
    /\ \E i \in 1..Len(Archive) : ~IsAscii(Archive[i].filename)

====
